---- MODULE Spec2Model ----
(***************************************************************************)
(* Model of src/deployer/deployer.rs: the deployer binary that uploads one *)
(* script file to {server}/api/scripts/{uri} and, in watch mode, uploads   *)
(* it again for every create/modify event delivered by the file watcher.   *)
(*                                                                         *)
(* The main thread is modelled by its program counter pc.  main blocks in  *)
(* three places (Client::send, thread::sleep, Receiver::recv); every       *)
(* action covers the code from one blocking point to the next.  The file   *)
(* system, the watcher's producer side and the HTTP server are the         *)
(* environment.                                                            *)
(***************************************************************************)
EXTENDS Integers, Sequences, FiniteSets, TLC

\* ---------------------------------------------------------------- bounds
MaxEvents  == 2      \* messages the watcher puts on the channel in one run
MaxElapsed == 150    \* the clock of a sleep is followed up to this many ms
TickMs     == 50     \* granularity of the clock

\* ------------------------------------------------------ program constants
SettleDelayMs  == 100   \* thread::sleep(Duration::from_millis(100))
ClientTimeoutS == 30    \* Client::builder().timeout(Duration::from_secs(30))

\* ------------------------------------------------------------ input sets
Contents == {"console.log(1)", "console.log(2)"}
Uris     == {"my-script", "other-script"}
Servers  == {"http://localhost:4000"}
Statuses == {200, 500}
\* notify::EventKind
EventKinds == {"Access", "Create", "Modify", "Remove", "Other"}

VARIABLES
    args,        \* Args: server, uri, watch (file is the one modelled path)
    pc,          \* position of main
    exitCode,    \* <<>> while running, <<c>> once the process has exited
    client,      \* <<>> before Client::builder()...build(), then <<[timeout]>>
    fileExists,  \* the path args.file exists
    fileContent, \* its content
    watching,    \* watcher.watch(path) has succeeded
    queue,       \* messages buffered in the mpsc channel, oldest first
    chanClosed,  \* the Sender (owned by the watcher) has been dropped
    produced,    \* number of messages sent on the channel so far
    cur,         \* id of the event being handled, 0 if none
    elapsed,     \* ms since the event being handled was received
    inflight,    \* POST requests sent and not yet answered
    ret,         \* value returned by the last deploy_script call
    response,    \* outcome of the last Client::send
    console,     \* last line written: <<stream, message>>
    uploads,     \* history: one record per deploy_script call
    consumed,    \* history: ids of the create/modify events received
    posts,       \* history: the POST requests issued, [url, body]
    pendingMod   \* history: the file was written in watch mode after the
                 \* initial read, and no redeploy call has started since

vars == <<args, pc, exitCode, client, fileExists, fileContent, watching,
          queue, chanClosed, produced, cur, elapsed, inflight, ret,
          response, console, uploads, consumed, posts, pendingMod>>

envVars  == <<fileExists, fileContent, queue, chanClosed, produced,
              pendingMod>>
mainVars == <<args, pc, exitCode, client, watching, cur, elapsed, inflight,
              ret, response, console, uploads, consumed, posts>>

\* ------------------------------------------------------- pure functions

\* variant: the path prefix is left out of the URL
api_url_bare(server_url, uri) == <<server_url, "/", uri>>

\* format!("{}/api/scripts/{}", server_url, uri)
api_url(server_url, uri) == <<server_url, "/api/scripts/", uri>>

\* StatusCode::is_success
is_success(status) == status >= 200 /\ status <= 299

\* EventKind::is_modify / EventKind::is_create
is_modify(kind) == kind = "Modify"
is_create(kind) == kind = "Create"

\* variant: every kind but an access counts as a change
triggers_all_but_access(kind) == kind # "Access"

\* if event.kind.is_modify() || event.kind.is_create()
triggers(kind) == is_modify(kind) \/ is_create(kind)

NoResponse == [kind |-> "none", status |-> 0, textOk |-> FALSE]
Outcomes ==
    {[kind |-> "network_error", status |-> 0, textOk |-> FALSE]}
    \cup {[kind |-> "response", status |-> s, textOk |-> t] :
            s \in Statuses, t \in BOOLEAN}

\* What deploy_script returns once send() has produced outcome o:
\* `?` propagates a reqwest error, every response ends in Ok(()).
deploy_script_result(o) ==
    IF o.kind = "network_error" THEN "Err_reqwest" ELSE "Ok"

\* Last line deploy_script prints for outcome o.
deploy_script_output(o) ==
    IF o.kind = "network_error" THEN <<"stdout", "Deploying">>
    ELSE IF is_success(o.status) THEN <<"stdout", "Successfully deployed script">>
    ELSE IF o.textOk THEN <<"stdout", "Error details">>
    ELSE <<"stdout", "Failed to deploy script">>

\* Classification of an outcome kept in the history.
outcome_class(o) ==
    IF o.kind = "network_error" THEN "network_error"
    ELSE IF is_success(o.status) THEN "2xx" ELSE "non2xx"

\* ------------------------------------------------------------------ Init
Init ==
    /\ args \in [server : Servers, uri : Uris, watch : BOOLEAN]
    /\ pc = "start"
    /\ exitCode = <<>>
    /\ client = <<>>
    /\ fileExists \in BOOLEAN
    /\ fileContent \in Contents
    /\ watching = FALSE
    /\ queue = <<>>
    /\ chanClosed = FALSE
    /\ produced = 0
    /\ cur = 0
    /\ elapsed = 0
    /\ inflight = 0
    /\ ret = "none"
    /\ response = NoResponse
    /\ console = <<"none", "">>
    /\ uploads = <<>>
    /\ consumed = <<>>
    /\ posts = <<>>
    /\ pendingMod = FALSE

\* std::process::exit(code), or main returning Ok (0) / Err (1)
Exit(code, line) ==
    /\ pc' = "exited"
    /\ exitCode' = <<code>>
    /\ console' = line

\* ------------------------------------------------------------ main steps

\* variant: a missing file is reported but main carries on
CheckExistsProceeds ==
    /\ pc = "start"
    /\ pc' = "build_client"
    /\ console' = IF ~fileExists THEN <<"stderr", "File does not exist">>
                                 ELSE console
    /\ UNCHANGED <<args, exitCode, client, watching, cur, elapsed, inflight,
                   ret, response, uploads, posts, consumed>>
    /\ UNCHANGED envVars

\* if !Path::new(&args.file).exists() { eprintln!; exit(1) }
CheckExists ==
    /\ pc = "start"
    /\ IF ~fileExists
         THEN Exit(1, <<"stderr", "File does not exist">>)
         ELSE /\ pc' = "build_client"
              /\ UNCHANGED <<exitCode, console>>
    /\ UNCHANGED <<args, client, watching, cur, elapsed, inflight, ret,
                   response, uploads, posts, consumed>>
    /\ UNCHANGED envVars

\* let client = Client::builder().timeout(30s).build()?;
BuildClient ==
    /\ pc = "build_client"
    /\ \E ok \in BOOLEAN :
         IF ok
           THEN /\ client' = <<[timeout |-> ClientTimeoutS]>>
                /\ pc' = "initial_deploy"
                /\ UNCHANGED <<exitCode, console>>
           ELSE /\ Exit(1, <<"stderr", "Error">>)
                /\ UNCHANGED client
    /\ UNCHANGED <<args, watching, cur, elapsed, inflight, ret, response,
                   uploads, posts, consumed>>
    /\ UNCHANGED envVars

\* deploy_script up to the point where it blocks in send(): read the file
\* (`?` returns the io error), build the URL, print, issue the POST.
\* sendPc is the position of main while it is blocked in send(); after a
\* failed read the caller decides where main goes.
deploy_script_begin(caller, ev, sendPc) ==
    /\ client # <<>>
    /\ response' = NoResponse
    /\ IF ~fileExists
         THEN /\ ret' = "Err_io"
              /\ uploads' = Append(uploads,
                     [caller |-> caller, ev |-> ev, url |-> <<>>,
                      body |-> "", posted |-> FALSE, outcome |-> "read_error"])
              /\ UNCHANGED <<inflight, posts>>
         ELSE /\ ret' = "none"
              /\ uploads' = Append(uploads,
                     [caller |-> caller, ev |-> ev,
                      url |-> api_url(args.server, args.uri),
                      body |-> fileContent, posted |-> TRUE,
                      outcome |-> "pending"])
              /\ posts' = Append(posts,
                     [url |-> api_url(args.server, args.uri),
                      body |-> fileContent])
              /\ inflight' = inflight + 1
              /\ pc' = sendPc
              /\ console' = <<"stdout", "Deploying">>

\* send() returns with outcome o; the rest of deploy_script runs.
deploy_script_end(o) ==
    /\ inflight > 0
    /\ inflight' = inflight - 1
    /\ response' = o
    /\ ret' = deploy_script_result(o)
    /\ uploads' = [uploads EXCEPT ![Len(uploads)].outcome = outcome_class(o)]
    /\ UNCHANGED posts

\* variant: the path is watched before the initial deployment
InitialDeployBeginWatchFirst ==
    /\ pc = "initial_deploy"
    /\ deploy_script_begin("initial", 0, "initial_sending")
    /\ IF ~fileExists
         THEN Exit(1, <<"stderr", "Initial deployment failed">>)
         ELSE UNCHANGED exitCode
    /\ watching' = TRUE
    /\ UNCHANGED <<args, client, cur, elapsed, consumed>>
    /\ UNCHANGED envVars

\* if let Err(e) = deploy_script(...) { eprintln!; exit(1) }  -- first half
InitialDeployBegin ==
    /\ pc = "initial_deploy"
    /\ deploy_script_begin("initial", 0, "initial_sending")
    /\ IF ~fileExists
         THEN Exit(1, <<"stderr", "Initial deployment failed">>)
         ELSE UNCHANGED exitCode
    /\ UNCHANGED <<args, client, watching, cur, elapsed, consumed>>
    /\ UNCHANGED envVars

\* variant: the watch flag is not consulted
InitialDeployEndAlwaysWatch ==
    /\ pc = "initial_sending"
    /\ \E o \in Outcomes :
         /\ deploy_script_end(o)
         /\ IF deploy_script_result(o) # "Ok"
              THEN Exit(1, <<"stderr", "Initial deployment failed">>)
              ELSE /\ pc' = "create_watcher"
                   /\ console' = <<"stdout", "Watching for file changes">>
                   /\ UNCHANGED exitCode
    /\ UNCHANGED <<args, client, watching, cur, elapsed, consumed>>
    /\ UNCHANGED envVars

\* ... second half, then `if !args.watch { return Ok(()) }`
InitialDeployEnd ==
    /\ pc = "initial_sending"
    /\ \E o \in Outcomes :
         /\ deploy_script_end(o)
         /\ IF deploy_script_result(o) # "Ok"
              THEN Exit(1, <<"stderr", "Initial deployment failed">>)
              ELSE IF ~args.watch
                THEN Exit(0, <<"stdout", "One-time deployment completed">>)
                ELSE /\ pc' = "create_watcher"
                     /\ console' = <<"stdout", "Watching for file changes">>
                     /\ UNCHANGED exitCode
    /\ UNCHANGED <<args, client, watching, cur, elapsed, consumed>>
    /\ UNCHANGED envVars

\* let (tx, rx) = channel(); RecommendedWatcher::new(tx, Config::default())?
CreateWatcher ==
    /\ pc = "create_watcher"
    /\ \E ok \in BOOLEAN :
         IF ok
           THEN /\ pc' = "watch_path"
                /\ UNCHANGED <<exitCode, console>>
           ELSE Exit(1, <<"stderr", "Error">>)
    /\ UNCHANGED <<args, client, watching, cur, elapsed, inflight, ret,
                   response, uploads, posts, consumed>>
    /\ UNCHANGED envVars

\* variant: the result of watcher.watch is dropped
WatchPathIgnoresError ==
    /\ pc = "watch_path"
    /\ \E ok \in BOOLEAN : watching' = ok
    /\ pc' = "recv"
    /\ UNCHANGED <<args, exitCode, client, cur, elapsed, inflight, ret,
                   response, console, uploads, posts, consumed>>
    /\ UNCHANGED envVars

\* watcher.watch(Path::new(&args.file), RecursiveMode::NonRecursive)?
WatchPath ==
    /\ pc = "watch_path"
    /\ \E ok \in BOOLEAN :
         IF ok
           THEN /\ watching' = TRUE
                /\ pc' = "recv"
                /\ UNCHANGED <<exitCode, console>>
           ELSE /\ Exit(1, <<"stderr", "Error">>)
                /\ UNCHANGED watching
    /\ UNCHANGED <<args, client, cur, elapsed, inflight, ret, response,
                   uploads, posts, consumed>>
    /\ UNCHANGED envVars

\* the states of main inside `loop { ... }`
LoopPcs == {"recv", "sleep", "redeploy_sending"}

\* variant: events are received while an earlier one is still handled
loop_head_unblocked == pc \in LoopPcs

\* rx.recv() is reached only at the top of a loop turn
loop_head == pc = "recv"

\* variant: a receive drains the whole backlog (debouncing)
dequeue_coalesce(q) == <<>>

\* recv() takes the oldest buffered message, and only that one
dequeue(q) == Tail(q)

\* variant: a watch error breaks out of the loop
watch_error_arm_break ==
    /\ Exit(0, <<"stderr", "Watch error">>)
    /\ UNCHANGED <<cur, consumed>>

\* Err(e) => eprintln!("Watch error: {:?}", e)
watch_error_arm ==
    /\ console' = <<"stderr", "Watch error">>
    /\ UNCHANGED <<pc, exitCode, cur, consumed>>

\* Ok(event) => if is_modify || is_create { println!; sleep ... }
event_arm(event) ==
    IF triggers(event.kind)
      THEN /\ console' = <<"stdout", "File changed, redeploying">>
           /\ pc' = "sleep"
           /\ cur' = event.id
           /\ consumed' = Append(consumed, event.id)
           /\ UNCHANGED exitCode
      ELSE UNCHANGED <<pc, exitCode, cur, consumed, console>>

\* rx.recv() returns Ok(msg): the match on the message up to the sleep.
RecvEvent ==
    /\ loop_head
    /\ queue # <<>>
    /\ queue' = dequeue(queue)
    /\ IF Head(queue).tag = "Err"
         THEN watch_error_arm
         ELSE event_arm(Head(queue))
    /\ elapsed' = 0
    /\ UNCHANGED <<args, client, watching, inflight, ret, response, uploads,
                   posts>>
    /\ UNCHANGED <<fileExists, fileContent, chanClosed, produced, pendingMod>>

\* variant: the loop ends as soon as the sender is gone, backlog or not
RecvClosedDropsBacklog ==
    /\ loop_head
    /\ chanClosed
    /\ Exit(0, <<"stderr", "Channel error">>)
    /\ UNCHANGED <<args, client, watching, cur, elapsed, inflight, ret,
                   response, uploads, posts, consumed>>
    /\ UNCHANGED envVars

\* variant: the closed channel is propagated as an error of main
RecvClosedFails ==
    /\ loop_head
    /\ queue = <<>>
    /\ chanClosed
    /\ Exit(1, <<"stderr", "Channel error">>)
    /\ UNCHANGED <<args, client, watching, cur, elapsed, inflight, ret,
                   response, uploads, posts, consumed>>
    /\ UNCHANGED envVars

\* rx.recv() returns Err(RecvError): the channel is empty and its sender is
\* gone.  eprintln!, break, Ok(()).
RecvClosed ==
    /\ loop_head
    /\ queue = <<>>
    /\ chanClosed
    /\ Exit(0, <<"stderr", "Channel error">>)
    /\ UNCHANGED <<args, client, watching, cur, elapsed, inflight, ret,
                   response, uploads, posts, consumed>>
    /\ UNCHANGED envVars

\* time passes while main is in thread::sleep
Tick ==
    /\ pc = "sleep"
    /\ elapsed < MaxElapsed
    /\ elapsed' = elapsed + TickMs
    /\ UNCHANGED <<args, pc, exitCode, client, watching, cur, inflight, ret,
                   response, console, uploads, posts, consumed>>
    /\ UNCHANGED envVars

\* variant: no settle delay
sleep_over_at_once(ms) == ms >= 0

\* thread::sleep(100ms) returns
sleep_over(ms) == ms >= SettleDelayMs

\* variant: a read failure in a redeploy ends the process
RedeployBeginFatal ==
    /\ pc = "sleep"
    /\ sleep_over(elapsed)
    /\ deploy_script_begin("redeploy", cur, "redeploy_sending")
    /\ IF ~fileExists
         THEN /\ Exit(1, <<"stderr", "Redeployment failed">>)
              /\ cur' = 0
              /\ elapsed' = 0
         ELSE UNCHANGED <<cur, elapsed, exitCode>>
    /\ UNCHANGED <<args, client, watching, consumed>>
    /\ pendingMod' = FALSE
    /\ UNCHANGED <<fileExists, fileContent, queue, chanClosed, produced>>

\* the sleep returns and deploy_script is called, up to send()
RedeployBegin ==
    /\ pc = "sleep"
    /\ sleep_over(elapsed)
    /\ deploy_script_begin("redeploy", cur, "redeploy_sending")
    /\ IF ~fileExists
         THEN /\ console' = <<"stderr", "Redeployment failed">>
              /\ pc' = "recv"
              /\ cur' = 0
              /\ elapsed' = 0
         ELSE UNCHANGED <<cur, elapsed>>
    /\ UNCHANGED <<args, exitCode, client, watching, consumed>>
    /\ pendingMod' = FALSE
    /\ UNCHANGED <<fileExists, fileContent, queue, chanClosed, produced>>

\* variant: a redeploy whose request fails is sent once more
RedeployEndRetries ==
    /\ pc = "redeploy_sending"
    /\ \E o \in Outcomes :
         IF deploy_script_result(o) # "Ok" /\ ret = "none"
           THEN /\ posts' = Append(posts, posts[Len(posts)])
                /\ response' = o
                /\ ret' = deploy_script_result(o)
                /\ console' = <<"stdout", "Deploying">>
                /\ UNCHANGED <<pc, cur, elapsed, inflight, uploads>>
           ELSE /\ deploy_script_end(o)
                /\ console' = IF deploy_script_result(o) # "Ok"
                                THEN <<"stderr", "Redeployment failed">>
                                ELSE deploy_script_output(o)
                /\ pc' = "recv"
                /\ cur' = 0
                /\ elapsed' = 0
    /\ UNCHANGED <<args, exitCode, client, watching, consumed>>
    /\ UNCHANGED envVars

\* variant: a failed redeploy is fatal, as the initial one is
RedeployEndFatal ==
    /\ pc = "redeploy_sending"
    /\ \E o \in Outcomes :
         /\ deploy_script_end(o)
         /\ IF deploy_script_result(o) # "Ok"
              THEN Exit(1, <<"stderr", "Redeployment failed">>)
              ELSE /\ console' = deploy_script_output(o)
                   /\ pc' = "recv"
                   /\ UNCHANGED exitCode
    /\ cur' = 0
    /\ elapsed' = 0
    /\ UNCHANGED <<args, client, watching, consumed>>
    /\ UNCHANGED envVars

\* send() returns, deploy_script returns, `if let Err(e)` logs, next loop turn
RedeployEnd ==
    /\ pc = "redeploy_sending"
    /\ \E o \in Outcomes :
         /\ deploy_script_end(o)
         /\ console' = IF deploy_script_result(o) # "Ok"
                         THEN <<"stderr", "Redeployment failed">>
                         ELSE deploy_script_output(o)
    /\ pc' = "recv"
    /\ cur' = 0
    /\ elapsed' = 0
    /\ UNCHANGED <<args, exitCode, client, watching, consumed>>
    /\ UNCHANGED envVars

\* ----------------------------------------------------------- environment

Running == pc # "exited"

\* the watcher's producer side sends one message
Send(msg) ==
    /\ produced' = produced + 1
    /\ queue' = Append(queue, msg @@ [id |-> produced + 1])

Delivering == watching /\ ~chanClosed

\* A change of the file: when the watch is live it is reported.
Notify(kind) ==
    IF Delivering
      THEN /\ produced < MaxEvents
           /\ Send([tag |-> "Ok", kind |-> kind])
      ELSE UNCHANGED <<queue, produced>>

\* a write of the file counts as a modification of the watched file once
\* the initial upload has read it, in a run that watches
Modified == pendingMod \/ (args.watch /\ uploads # <<>>)

FsWrite ==
    /\ Running
    /\ fileExists
    /\ \E c \in Contents \ {fileContent} : fileContent' = c
    /\ Notify("Modify")
    /\ pendingMod' = Modified
    /\ UNCHANGED <<fileExists, chanClosed>>
    /\ UNCHANGED mainVars

FsRemove ==
    /\ Running
    /\ fileExists
    /\ fileExists' = FALSE
    /\ Notify("Remove")
    /\ UNCHANGED <<fileContent, chanClosed, pendingMod>>
    /\ UNCHANGED mainVars

FsCreate ==
    /\ Running
    /\ ~fileExists
    /\ fileExists' = TRUE
    /\ \E c \in Contents : fileContent' = c
    /\ Notify("Create")
    /\ pendingMod' = Modified
    /\ UNCHANGED chanClosed
    /\ UNCHANGED mainVars

\* an event that changes nothing in the file (the file is opened or read)
FsAccess ==
    /\ Running
    /\ Delivering
    /\ produced < MaxEvents
    /\ Send([tag |-> "Ok", kind |-> "Access"])
    /\ UNCHANGED <<fileExists, fileContent, chanClosed, pendingMod>>
    /\ UNCHANGED mainVars

\* the watcher reports an error: Err(notify::Error) on the channel
WatchError ==
    /\ Running
    /\ Delivering
    /\ produced < MaxEvents
    /\ Send([tag |-> "Err", kind |-> ""])
    /\ UNCHANGED <<fileExists, fileContent, chanClosed, pendingMod>>
    /\ UNCHANGED mainVars

\* the producer terminates and drops the Sender
ProducerClose ==
    /\ Running
    /\ Delivering
    /\ chanClosed' = TRUE
    /\ UNCHANGED <<fileExists, fileContent, queue, produced, pendingMod>>
    /\ UNCHANGED mainVars

Next ==
    \/ CheckExists
    \/ BuildClient
    \/ InitialDeployBegin
    \/ InitialDeployEnd
    \/ CreateWatcher
    \/ WatchPath
    \/ RecvEvent
    \/ RecvClosed
    \/ Tick
    \/ RedeployBegin
    \/ RedeployEnd
    \/ FsWrite
    \/ FsRemove
    \/ FsCreate
    \/ FsAccess
    \/ WatchError
    \/ ProducerClose

Spec == Init /\ [][Next]_vars

\* A run in watch mode on an existing file, with the default server: the
\* runs in which the loop can be reached.
FairInit ==
    /\ Init
    /\ args = [server |-> "http://localhost:4000", uri |-> "my-script",
               watch |-> TRUE]
    /\ fileExists
    /\ fileContent = "console.log(1)"

\* The main thread keeps running: a step of the loop that can be taken is
\* taken (recv returns when a message is buffered or the sender is gone, the
\* sleep ends), and every upload call of the loop returns.
FairSpec ==
    /\ FairInit
    /\ [][Next]_vars
    /\ WF_vars(RecvEvent)
    /\ WF_vars(RecvClosed)
    /\ WF_vars(Tick)
    /\ WF_vars(RedeployBegin)
    /\ WF_vars(RedeployEnd)

TypeOK ==
    /\ pc \in {"start", "build_client", "initial_deploy", "initial_sending",
               "create_watcher", "watch_path", "recv", "sleep",
               "redeploy_sending", "exited"}
    /\ exitCode \in {<<>>, <<0>>, <<1>>}
    /\ ret \in {"none", "Ok", "Err_io", "Err_reqwest"}
    /\ Len(queue) <= produced
    /\ \A i \in DOMAIN queue :
         queue[i].tag = "Ok" => queue[i].kind \in EventKinds
    /\ produced <= MaxEvents

\* ------------------------------------------------------------ properties

Failures == {"read_error", "network_error", "non2xx"}
Sending  == {"initial_sending", "redeploy_sending"}
Changes  == {"Create", "Modify"}

\* a step in which the loop takes a message off the channel
Received == queue # <<>> /\ Len(queue') < Len(queue)

\* the event ids of the redeploy calls, in call order
RedeployEvs ==
    LET r == SelectSeq(uploads, LAMBDA u : u.caller = "redeploy")
    IN  [i \in 1..Len(r) |-> r[i].ev]

\* C1: if the initial upload attempt fails for any reason (read failure,
\* network failure, non-2xx answer) the process has exited with code 1 and
\* has neither subscribed to file changes nor entered the watch loop.
C1_InitialFailureIsFatal ==
    (uploads # <<>> /\ uploads[1].outcome \in Failures)
        => /\ pc = "exited"
           /\ exitCode = <<1>>
           /\ ~watching
           /\ consumed = <<>>

\* C2: the value an upload call returns is success if and only if the
\* server answered with a 2xx status, and a network failure is returned as
\* an error that is not a status.
C2_SuccessIffStatus2xx ==
    ret # "none"
        => /\ (ret = "Ok") <=> (response.kind = "response"
                                 /\ response.status >= 200
                                 /\ response.status <= 299)
           /\ response.kind = "network_error" => ret = "Err_reqwest"

\* C3: when the existence check finds no file, the process exits with code
\* 1 having built no HTTP client, issued no POST and established no watch.
C3_MissingFileExitsBeforeNetwork ==
    /\ [][(pc = "start" /\ ~fileExists /\ pc' # "start")
            => /\ pc' = "exited"
               /\ exitCode' = <<1>>
               /\ client' = <<>>
               /\ uploads' = <<>>
               /\ inflight' = 0
               /\ ~watching']_vars
    /\ [](console = <<"stderr", "File does not exist">>
            => /\ exitCode = <<1>>
               /\ client = <<>>
               /\ uploads = <<>>
               /\ ~watching)

C3_Witness ==
    /\ pc = "exited"
    /\ console = <<"stderr", "File does not exist">>
    /\ exitCode = <<1>>

\* C4: a redeploy upload never ends the loop, whatever its result: from the
\* settle delay and from the upload the loop only goes on to the upload or
\* back to Idle, the process does not exit, and after a failed redeploy a
\* create/modify event taken off the channel starts a settle delay whose end
\* is a new upload call for that event.
C4_FailedRedeployKeepsLoop ==
    /\ [][(pc \in {"sleep", "redeploy_sending"} /\ pc' # pc)
            => /\ pc' \in {"redeploy_sending", "recv"}
               /\ exitCode' = <<>>]_vars
    /\ [][(/\ Received
           /\ uploads[Len(uploads)].caller = "redeploy"
           /\ uploads[Len(uploads)].outcome \in Failures
           /\ Head(queue).tag = "Ok"
           /\ Head(queue).kind \in Changes)
            => pc' = "sleep" /\ cur' = Head(queue).id]_vars
    /\ [][(pc = "sleep" /\ pc' # "sleep")
            => /\ Len(uploads') = Len(uploads) + 1
               /\ uploads'[Len(uploads')].caller = "redeploy"
               /\ uploads'[Len(uploads')].ev = cur]_vars

C4_Witness ==
    \E i \in 1..(Len(uploads) - 1) :
        /\ uploads[i].caller = "redeploy"
        /\ uploads[i].outcome \in Failures
        /\ uploads[i + 1].caller = "redeploy"
        /\ pc = "recv"

\* C5: at most one POST is in flight, it is in flight exactly while main is
\* blocked in send(), and a message is taken off the channel only when the
\* loop is Idle with no upload in flight, also when more events are queued.
C5_AtMostOneUploadInFlight ==
    /\ [](/\ inflight <= 1
          /\ (inflight = 1) <=> (pc \in Sending)
          /\ Cardinality({i \in DOMAIN uploads :
                            uploads[i].outcome = "pending"}) = inflight)
    /\ [][Received => (pc = "recv" /\ inflight = 0)]_vars

C5_Witness ==
    /\ pc = "redeploy_sending"
    /\ inflight = 1
    /\ queue # <<>>
    /\ Head(queue).tag = "Ok"
    /\ Head(queue).kind \in Changes

\* C6: messages leave the channel oldest first and one at a time; every
\* create/modify event taken is recorded once, in arrival order; and the
\* redeploy upload calls are exactly the recorded events in the same order
\* (the call of the event being handled starts when its settle delay ends).
C6_InOrderExactlyOnce ==
    /\ [](consumed = IF pc = "sleep" THEN Append(RedeployEvs, cur)
                                     ELSE RedeployEvs)
    /\ [](\A i, j \in DOMAIN consumed : i < j => consumed[i] < consumed[j])
    /\ [](\A i, j \in DOMAIN queue : i < j => queue[i].id < queue[j].id)
    /\ [][Received
            => /\ queue' = Tail(queue)
               /\ consumed' = IF Head(queue).tag = "Ok"
                                  /\ Head(queue).kind \in Changes
                                THEN Append(consumed, Head(queue).id)
                                ELSE consumed]_vars

C6_Witness ==
    /\ pc = "recv"
    /\ Len(consumed) >= 2
    /\ consumed = RedeployEvs

\* C7: a redeploy upload call starts only when at least the settle delay
\* (100 ms) has passed since its event was received, no event has more than
\* one upload call, and one write handled by the loop has exactly one.
C7_OneUploadAfterSettleDelay ==
    /\ [](pc = "redeploy_sending" => elapsed >= SettleDelayMs)
    /\ [][(Len(uploads') > Len(uploads) /\ pc # "initial_deploy")
            => (pc = "sleep" /\ elapsed >= SettleDelayMs)]_vars
    /\ [](\A id \in 1..produced :
            Cardinality({i \in DOMAIN uploads :
                           /\ uploads[i].caller = "redeploy"
                           /\ uploads[i].ev = id}) <= 1)
    /\ []((produced = 1 /\ consumed = <<1>> /\ pc = "recv")
            => Len(RedeployEvs) = 1)

C7_Witness ==
    /\ pc = "recv"
    /\ produced = 1
    /\ consumed = <<1>>
    /\ Len(uploads) = 2
    /\ uploads[2].caller = "redeploy"
    /\ uploads[2].posted

\* C8: taking an event of a kind other than create or modify off the
\* channel changes nothing: the loop stays Idle, there is no settle delay,
\* no upload call and no output.
C8_OtherKindsIgnored ==
    [][(/\ Received
        /\ Head(queue).tag = "Ok"
        /\ Head(queue).kind \notin Changes)
         => /\ pc' = "recv"
            /\ elapsed' = 0
            /\ uploads' = uploads
            /\ consumed' = consumed
            /\ inflight' = inflight
            /\ console' = console
            /\ exitCode' = <<>>]_vars

C8_Witness ==
    /\ pc = "recv"
    /\ produced >= 1
    /\ queue = <<>>
    /\ consumed = <<>>
    /\ console = <<"stdout", "Watching for file changes">>

\* C9: an error message from the watcher is logged and nothing else: the
\* loop stays Idle, no upload is made, the process does not exit and the
\* messages behind it stay on the channel, where the loop can take them.
C9_WatchErrorKeepsIdle ==
    /\ [][(Received /\ Head(queue).tag = "Err")
            => /\ console' = <<"stderr", "Watch error">>
               /\ pc' = "recv"
               /\ exitCode' = <<>>
               /\ uploads' = uploads
               /\ consumed' = consumed
               /\ inflight' = inflight
               /\ queue' = Tail(queue)]_vars
    /\ []((pc = "recv" /\ queue # <<>>) => ENABLED RecvEvent)

C9_Witness ==
    /\ pc = "recv"
    /\ console = <<"stderr", "Watch error">>
    /\ queue # <<>>

\* C10: the loop is left only when recv reports the closed channel (sender
\* gone, nothing buffered); the process then exits with code 0 without a
\* further upload, and the closed, drained channel always lets the loop end.
C10_ClosureTerminates ==
    /\ [][(pc \in LoopPcs /\ pc' \notin LoopPcs)
            => /\ pc = "recv"
               /\ queue = <<>>
               /\ chanClosed
               /\ pc' = "exited"
               /\ exitCode' = <<0>>
               /\ uploads' = uploads
               /\ inflight' = 0]_vars
    /\ []((pc = "recv" /\ queue = <<>> /\ chanClosed) => ENABLED RecvClosed)
    /\ []((pc = "exited" /\ watching) => (exitCode = <<0>> /\ inflight = 0))

C10_Witness ==
    /\ pc = "exited"
    /\ watching
    /\ exitCode = <<0>>
    /\ console = <<"stderr", "Channel error">>
    /\ Len(uploads) >= 2

\* the states of main between the initial upload and the loop
SetupPcs == {"create_watcher", "watch_path"}

\* C11 (as stated): with the watch flag disabled the process makes exactly
\* one upload call, never watches and exits with code 0.
C11_OneShotAlwaysExitsZero ==
    (~args.watch /\ pc = "exited")
        => /\ exitCode = <<0>>
           /\ Len(uploads) = 1
           /\ ~watching

\* C11 (amended): with the watch flag disabled the process makes at most one
\* upload call, never sets up a watch, never produces or handles an event,
\* and exits as soon as the initial upload call returns, with code 0 if it
\* returned success and code 1 if it returned an error (a run that ends
\* before any upload call ends with code 1); the setup of the watch and the
\* loop are reached only with the flag enabled.
C11_OneShot ==
    /\ [](~args.watch
            => /\ Len(uploads) <= 1
               /\ ~watching
               /\ produced = 0
               /\ consumed = <<>>
               /\ pc \notin (SetupPcs \cup LoopPcs))
    /\ [][(~args.watch /\ pc = "initial_sending" /\ pc' # pc)
            => /\ pc' = "exited"
               /\ Len(uploads') = 1
               /\ exitCode' = IF ret' = "Ok" THEN <<0>> ELSE <<1>>]_vars
    /\ [][(~args.watch /\ pc = "initial_deploy" /\ pc' = "exited")
            => (ret' = "Err_io" /\ exitCode' = <<1>>)]_vars
    /\ []((~args.watch /\ pc = "exited" /\ uploads = <<>>) => exitCode = <<1>>)
    /\ []((pc \in (SetupPcs \cup LoopPcs) \/ watching) => args.watch)

C11_Witness ==
    /\ ~args.watch
    /\ pc = "exited"
    /\ exitCode = <<0>>
    /\ Len(uploads) = 1
    /\ console = <<"stdout", "One-time deployment completed">>

\* C12: when creating the watcher or registering the path fails, the process
\* exits with code 1 from the setup, with no event produced or handled; the
\* loop is only ever entered with the watch established.
C12_WatchSetupFailureIsFatal ==
    /\ [][(pc \in SetupPcs /\ pc' \notin SetupPcs /\ ~watching')
            => /\ pc' = "exited"
               /\ exitCode' = <<1>>
               /\ produced' = 0
               /\ consumed' = <<>>
               /\ Len(uploads') = 1]_vars
    /\ [](pc \in LoopPcs => watching)
    /\ []((pc = "exited" /\ console = <<"stderr", "Error">>)
            => (exitCode = <<1>> /\ ~watching /\ consumed = <<>>))

C12_Witness ==
    /\ pc = "exited"
    /\ exitCode = <<1>>
    /\ console = <<"stderr", "Error">>
    /\ Len(uploads) = 1
    /\ ~watching

\* C13: in watch mode no modification made after the initial upload has
\* read the file is left without a redeploy upload call after it: when the
\* loop is Idle with nothing queued and the channel open, every such
\* modification has been followed by the start of a redeploy call.
C13_ModificationIsRedeployed ==
    (pc = "recv" /\ queue = <<>> /\ ~chanClosed) => ~pendingMod

\* C14: no retries.  A step issues at most one POST and only as part of a new
\* upload call, the return of a call (failed or not) issues none, and the
\* POSTs of a run number at most 1 plus the create/modify events consumed.
C14_NoRetries ==
    /\ [](/\ Len(posts) <= Len(uploads)
          /\ Len(uploads) <= 1 + Len(consumed)
          /\ Len(posts) <= 1 + Len(consumed))
    /\ [][Len(posts') > Len(posts)
            => /\ Len(posts') = Len(posts) + 1
               /\ Len(uploads') = Len(uploads) + 1]_vars
    /\ [][(pc \in Sending /\ (response' # response \/ pc' # pc))
            => /\ posts' = posts
               /\ Len(uploads') = Len(uploads)
               /\ inflight' = 0
               /\ pc' \notin Sending]_vars

C14_Witness ==
    /\ pc = "recv"
    /\ queue = <<>>
    /\ produced = 1
    /\ Len(uploads) = 2
    /\ Len(posts) = 2
    /\ uploads[2].outcome = "network_error"
    /\ ret = "Err_reqwest"

\* C15: an upload call that cannot read the file returns the io error with
\* no POST issued; from the loop this is reported and the loop is Idle again,
\* the process still running.
C15_ReadFailureBeforeNetwork ==
    /\ [][(Len(uploads') > Len(uploads) /\ ~fileExists)
            => /\ posts' = posts
               /\ inflight' = inflight
               /\ ret' = "Err_io"
               /\ ~uploads'[Len(uploads')].posted
               /\ pc = "sleep"
                    => /\ pc' = "recv"
                       /\ exitCode' = <<>>
                       /\ console' = <<"stderr", "Redeployment failed">>]_vars
    /\ [](\A i \in DOMAIN uploads :
            uploads[i].outcome = "read_error" => ~uploads[i].posted)
    /\ [](Len(posts) = Cardinality({i \in DOMAIN uploads : uploads[i].posted}))

C15_Witness ==
    /\ pc = "recv"
    /\ ret = "Err_io"
    /\ uploads[Len(uploads)].caller = "redeploy"
    /\ uploads[Len(uploads)].outcome = "read_error"
    /\ Len(posts) = Len(uploads) - 1

\* C16: the arguments never change; every POST goes to
\* {server}/api/scripts/{uri} of those arguments; and the body of a POST is
\* the content the file has at the step that reads it, which for a redeploy
\* comes after the settle delay.
C16_SameTargetBodyAtReadTime ==
    /\ [][args' = args]_vars
    /\ [](\A i \in DOMAIN posts :
            posts[i].url = <<args.server, "/api/scripts/", args.uri>>)
    /\ [][Len(posts') > Len(posts)
            => /\ fileExists
               /\ posts'[Len(posts')].body = fileContent
               /\ pc = "sleep" => elapsed >= SettleDelayMs]_vars
    /\ [](\A i \in DOMAIN posts : posts[i].body \in Contents)

C16_Witness ==
    /\ Len(posts) >= 2
    /\ posts[2].url = posts[1].url
    /\ posts[2].body # posts[1].body
    /\ posts[2].body = fileContent

\* the queue holds the create/modify event with this id
Queued(id) ==
    \E i \in DOMAIN queue :
        /\ queue[i].id = id
        /\ queue[i].tag = "Ok"
        /\ queue[i].kind \in Changes

\* a redeploy upload call has been started for the event with this id
Uploaded(id) ==
    \E i \in DOMAIN uploads :
        uploads[i].caller = "redeploy" /\ uploads[i].ev = id

\* C17: with the main thread running and every upload call returning, each
\* create/modify event on the channel leads to an upload call of its own,
\* whatever the backlog and also after the producer has closed the channel.
C17_BacklogDrained ==
    \A id \in 1..MaxEvents : Queued(id) ~> Uploaded(id)

C17_Witness ==
    /\ pc = "exited"
    /\ chanClosed
    /\ Len(consumed) >= 2
    /\ \A i \in DOMAIN consumed : Uploaded(consumed[i])

\* position of a startup step in main
Rank(p) ==
    CASE p = "start" -> 1
      [] p = "build_client" -> 2
      [] p = "initial_deploy" -> 3
      [] p = "initial_sending" -> 4
      [] p = "create_watcher" -> 5
      [] p = "watch_path" -> 6
      [] p = "recv" -> 7
      [] OTHER -> 8

\* C18: main goes through existence check, client construction, initial
\* upload, watcher creation, path registration and loop in this order or
\* exits; the initial call has returned before the watch exists and before
\* any message is sent or received; the client has the 30 s timeout and is
\* never rebuilt or changed once built.
C18_StartupOrder ==
    /\ [][(pc' # pc /\ pc \notin LoopPcs)
            => (pc' = "exited" \/ Rank(pc') = Rank(pc) + 1)]_vars
    /\ [](uploads # <<>> => client # <<>>)
    /\ []((watching \/ produced > 0 \/ pc \in (SetupPcs \cup LoopPcs))
            => /\ uploads # <<>>
               /\ uploads[1].caller = "initial"
               /\ uploads[1].outcome \notin {"pending", "read_error"}
               /\ pc # "initial_sending")
    /\ [](produced > 0 => watching)
    /\ [](client = <<>> \/ client = <<[timeout |-> 30]>>)
    /\ [][client # <<>> => client' = client]_vars

C18_Witness ==
    /\ pc = "redeploy_sending"
    /\ client = <<[timeout |-> 30]>>
    /\ watching
    /\ Len(posts) = 3

\* C19: when the loop is Idle with nothing queued and the channel open, the
\* body of the most recent upload attempt is the file's current content.
C19_Convergence ==
    (pc = "recv" /\ queue = <<>> /\ ~chanClosed /\ fileExists)
        => uploads[Len(uploads)].body = fileContent
====
